---- MODULE Spec2Model ----
(***************************************************************************)
(* Model of utils/rag_func.py: the sliding-window RateLimiter, the chat    *)
(* operations that pass through the two module-level limiters, the         *)
(* cache-then-compute embedding and search gateways, and the history       *)
(* compaction of summarize_text.                                           *)
(*                                                                         *)
(* Time is discrete.  Time stamps are kept relative to a frame of Horizon  *)
(* ticks: until the clock reaches the end of the frame a tick advances the *)
(* clock, afterwards a tick moves the frame instead (every stored time     *)
(* drops by one and saturates at 0, which is then older than any period).  *)
(***************************************************************************)
EXTENDS Integers, Sequences, FiniteSets, TLC

\* ---------------------------------------------------------------- bounds
NThreads == 2
MaxMaxCalls == 2
MaxPeriod == 2
SecMaxCalls == 1
SecPeriod == 2
MinMaxCalls == 2
MinPeriod == 3
MaxTextLen == 1
MaxRows == 2
MaxKeyLen == 2

Threads == 1..NThreads
Limiters == {"sec", "min"}
NoThread == 0

VARIABLES
    clock,      \* time.time(), in ticks
    max_calls,  \* RateLimiter.max_calls, per limiter instance
    period,     \* RateLimiter.period, per limiter instance, in ticks
    lock,       \* RateLimiter.lock: the thread holding it, or NoThread
    calls,      \* RateLimiter.calls: the recorded time stamps, oldest first
    pc,         \* per thread: position in the operation it runs
    apc,        \* per thread: position inside RateLimiter.acquire
    lim,        \* per thread: the limiter whose acquire() it is in
    to_wait,    \* per thread: the local to_wait of acquire()
    wake,       \* per thread: earliest clock value at which time.sleep ends
    appends,    \* per thread: time stamps appended by its current acquire()
    ret,        \* per thread: outcome of its last finished acquire()
    loc,        \* per thread: arguments, locals and result of its operation
    history,    \* the history store: per user the stored entries, oldest first
    cache,      \* the cache server: key -> stored value, ttl and remaining life
    cl,         \* per thread: arguments, locals and result of its cache operation
    prev        \* per thread: its previous finished get_search_results call

engVars == <<loc, history>>
vars == <<clock, max_calls, period, lock, calls,
          pc, apc, lim, to_wait, wake, appends, ret, loc, history, cache, cl, prev>>
cacheVars == <<cache, cl, prev>>

\* ------------------------------------------------------------ RateLimiter
\* self.calls = [t for t in self.calls if t > now - self.period]
PurgeKeepsBoundary(cs, now, p) == SelectSeq(cs, LAMBDA t : t >= now - p)
Purge(cs, now, p) == SelectSeq(cs, LAMBDA t : t > now - p)

\* if len(self.calls) >= self.max_calls
MustWait(n, mc) == n >= mc

\* to_wait = self.period - (now - self.calls[0])
ToWaitShort(p, now, oldest) == p - (now - oldest) - 1
ToWaitSwapped(p, now, oldest) == (now - oldest) - p
ToWaitLong(p, now, oldest) == p + (now - oldest)
ToWait(p, now, oldest) == p - (now - oldest)

\* number of recorded time stamps of limiter l inside the window ending now
InWindow(l) == Len(SelectSeq(calls[l], LAMBDA t : t > clock - period[l]))

Dec(x) == IF x > 0 THEN x - 1 ELSE 0
\* the stored entries of a history store, their time stamps moved with the frame
Older(h) ==
    [u \in DOMAIN h |->
        [i \in 1..Len(h[u]) |-> [h[u][i] EXCEPT !.timestamp = Dec(@)]]]
\* no time, or a time that has left the frame
NoTime == -1

\* the longest configured period
MaxOf(S) == CHOOSE x \in S : \A y \in S : y <= x
\* length of the time frame: no limiter looks further back than this
Horizon == MaxOf({period[l] : l \in Limiters})

\* the locals f of thread t one tick later; where the time is measured: the
\* time a thread has spent in a bare acquire() since it called it (blocked)
\* and since it got the lock (inside), neither counted further than one tick
\* beyond the period
Waited(t, f, measured) ==
    IF measured /\ pc[t] = "acquire"
                /\ apc[t] \in {"lock", "check", "sleeping", "append"}
       THEN [f EXCEPT
               !.blocked = IF @ <= period[lim[t]] THEN @ + 1 ELSE @,
               !.inside = IF apc[t] # "lock" /\ @ <= period[lim[t]]
                             THEN @ + 1 ELSE @]
       ELSE f

\* the clock advances by one tick
Elapse(measured) ==
    /\ IF clock < Horizon
          THEN /\ clock' = clock + 1
               /\ loc' = [t \in Threads |-> Waited(t, loc[t], measured)]
               /\ UNCHANGED <<calls, wake, history, cacheVars>>
          ELSE /\ clock' = clock
               /\ calls' = [l \in Limiters |->
                              [i \in 1..Len(calls[l]) |-> Dec(calls[l][i])]]
               /\ wake' = [t \in Threads |-> Dec(wake[t])]
               /\ loc' = [t \in Threads |->
                             [Waited(t, loc[t], measured) EXCEPT !.timestamp = Dec(@),
                                            !.entry_store = Older(@),
                                            !.sent_at = IF @ > 0 THEN @ - 1
                                                        ELSE NoTime]]
               /\ history' = Older(history)
    /\ UNCHANGED <<max_calls, period, lock, pc, apc, lim, to_wait, appends, ret,
                   cacheVars>>

Tick == Elapse(FALSE)

\* with self.lock:  (entry)
LockUnguarded(t) ==
    /\ apc[t] = "lock"
    /\ lock' = [lock EXCEPT ![lim[t]] = t]
    /\ apc' = [apc EXCEPT ![t] = "check"]
    /\ UNCHANGED <<clock, max_calls, period, calls, pc, lim, to_wait, wake,
                   appends, ret, engVars, cacheVars>>
Lock(t) ==
    /\ apc[t] = "lock"
    /\ lock[lim[t]] = NoThread
    /\ lock' = [lock EXCEPT ![lim[t]] = t]
    /\ apc' = [apc EXCEPT ![t] = "check"]
    /\ UNCHANGED <<clock, max_calls, period, calls, pc, lim, to_wait, wake,
                   appends, ret, engVars, cacheVars>>

\* now = time.time(); purge; if len >= max_calls: to_wait = ...; time.sleep(to_wait)
\* time.sleep raises ValueError for a negative length; the with statement
\* then releases the lock and the error reaches the caller of acquire().
Check(t) ==
    LET l == lim[t]
        now == clock
        kept == Purge(calls[l], now, period[l])
    IN  /\ apc[t] = "check"
        /\ calls' = [calls EXCEPT ![l] = kept]
        /\ IF MustWait(Len(kept), max_calls[l])
              THEN LET w == ToWait(period[l], now, kept[1])
                   IN  /\ to_wait' = [to_wait EXCEPT ![t] = w]
                       /\ IF w < 0
                             THEN /\ apc' = [apc EXCEPT ![t] = "error"]
                                  /\ lock' = [lock EXCEPT ![l] = NoThread]
                                  /\ wake' = wake
                             ELSE /\ apc' = [apc EXCEPT ![t] = "sleeping"]
                                  /\ wake' = [wake EXCEPT ![t] = now + w]
                                  /\ lock' = lock
              ELSE /\ apc' = [apc EXCEPT ![t] = "append"]
                   /\ to_wait' = [to_wait EXCEPT ![t] = 0]
                   /\ UNCHANGED <<wake, lock>>
        /\ UNCHANGED <<clock, max_calls, period, pc, lim, appends, ret, engVars, cacheVars>>

\* time.sleep(to_wait) returns: not before to_wait has elapsed
Wake(t) ==
    /\ apc[t] = "sleeping"
    /\ clock >= wake[t]
    /\ apc' = [apc EXCEPT ![t] = "append"]
    /\ wake' = [wake EXCEPT ![t] = 0]
    /\ UNCHANGED <<clock, max_calls, period, lock, calls, pc, lim, to_wait,
                   appends, ret, engVars, cacheVars>>

\* self.calls.append(time.time()); leave the with block; acquire() returns
RecordKeepsLock(t) ==
    LET l == lim[t]
    IN  /\ apc[t] = "append"
        /\ calls' = [calls EXCEPT ![l] = Append(calls[l], clock)]
        /\ apc' = [apc EXCEPT ![t] = "returned"]
        /\ appends' = [appends EXCEPT ![t] = appends[t] + 1]
        /\ UNCHANGED <<clock, max_calls, period, lock, pc, lim, to_wait, wake,
                       ret, engVars, cacheVars>>
Record(t) ==
    LET l == lim[t]
    IN  /\ apc[t] = "append"
        /\ calls' = [calls EXCEPT ![l] = Append(calls[l], clock)]
        /\ lock' = [lock EXCEPT ![l] = NoThread]
        /\ apc' = [apc EXCEPT ![t] = "returned"]
        /\ appends' = [appends EXCEPT ![t] = appends[t] + 1]
        /\ UNCHANGED <<clock, max_calls, period, pc, lim, to_wait, wake, ret,
                       engVars, cacheVars>>

\* control enters acquire() of limiter l: the thread goes for the lock
EnterAcquire(t, l) ==
    /\ apc' = [apc EXCEPT ![t] = "lock"]
    /\ lim' = [lim EXCEPT ![t] = l]
    /\ to_wait' = [to_wait EXCEPT ![t] = 0]
    /\ appends' = [appends EXCEPT ![t] = 0]

\* a thread calls acquire() on the limiter instance l
AcquireCall(t, l) ==
    /\ pc[t] = "idle"
    /\ pc' = [pc EXCEPT ![t] = "acquire"]
    /\ EnterAcquire(t, l)
    /\ ret' = [ret EXCEPT ![t] = "none"]
    /\ loc' = [loc EXCEPT ![t].blocked = 0, ![t].inside = 0]
    /\ UNCHANGED <<clock, max_calls, period, lock, calls, wake, history, cacheVars>>

\* the caller gets control back from acquire(): normally or with the error
AcquireReturn(t) ==
    /\ pc[t] = "acquire"
    /\ apc[t] \in {"returned", "error"}
    /\ ret' = [ret EXCEPT ![t] = IF apc[t] = "error" THEN "error" ELSE "ok"]
    /\ pc' = [pc EXCEPT ![t] = "idle"]
    /\ apc' = [apc EXCEPT ![t] = "none"]
    /\ UNCHANGED <<clock, max_calls, period, lock, calls, lim, to_wait, wake,
                   appends, engVars, cacheVars>>

\* ------------------------------------------------------------------ text
\* A text is a sequence of tokens: a token is a white-space character or a
\* run of other characters.
WhiteSpace == {" ", "\n"}

RECURSIVE LStrip(_)
LStrip(s) == IF s # << >> /\ Head(s) \in WhiteSpace THEN LStrip(Tail(s)) ELSE s

RECURSIVE RStrip(_)
RStrip(s) ==
    IF s # << >> /\ s[Len(s)] \in WhiteSpace
       THEN RStrip(SubSeq(s, 1, Len(s) - 1))
       ELSE s

\* str.strip()
StripLeftOnly(s) == LStrip(s)
Strip(s) == RStrip(LStrip(s))

\* str.upper(), token by token
UpperTok(k) ==
    CASE k = "more" -> "MORE"
      [] k = "continue" -> "CONTINUE"
      [] k = "conversation" -> "CONVERSATION"
      [] k = "insurance_service" -> "INSURANCE_SERVICE"
      [] k = "insurance_product" -> "INSURANCE_PRODUCT"
      [] k = "off-topic" -> "OFF-TOPIC"
      [] k = "banana" -> "BANANA"
      [] k = "please" -> "PLEASE"
      [] OTHER -> k
Upper(s) == [i \in 1..Len(s) |-> UpperTok(s[i])]

\* the label list of decide_search_path
PathLabels ==
    { <<"INSURANCE_SERVICE">>, <<"INSURANCE_PRODUCT">>,
      <<"CONTINUE", " ", "CONVERSATION">>, <<"MORE">>, <<"OFF-TOPIC">> }

\* path_decision if path_decision in [...] else "OFF-TOPIC"
PathDecisionNoDefault(raw) == Upper(Strip(raw))
PathDecision(raw) ==
    LET path_decision == Upper(Strip(raw))
    IN  IF path_decision \in PathLabels THEN path_decision ELSE <<"OFF-TOPIC">>

\* ------------------------------------------------------- history store
Users == {"u1", "u2"}
NoDecision == "NONE"

\* del_chat_history(user_id)
del_chat_history(h, u) == [h EXCEPT ![u] = << >>]

\* get_latest_decide(user_id)
get_latest_decide(h, u) ==
    IF h[u] = << >> THEN NoDecision ELSE h[u][Len(h[u])].decision

\* save_chat_history(user_id, role, content, timestamp, decision)
save_chat_history(h, u, role, content, ts, d) ==
    [h EXCEPT ![u] = Append(@, [role |-> role, content |-> content,
                                timestamp |-> ts, decision |-> d])]

\* ------------------------------------------------- operations, per thread
NoResult == [kind |-> "none", val |-> << >>]
Value(v) == [kind |-> "value", val |-> v]
Raised == [kind |-> "error", val |-> << >>]

\* a call made on the history store, as logged by the calling operation
StoreCall(c, u, role, content, d) ==
    [call |-> c, user_id |-> u, role |-> role, content |-> content, decision |-> d]

\* locals of a thread that runs no operation yet
LocInit ==
    [ op |-> "none", acquired |-> << >>, nchat |-> 0, gates |-> << >>,
      sent_at |-> NoTime, raw |-> << >>, answered |-> FALSE,
      blocked |-> 0, inside |-> 0,
      result |-> NoResult, text |-> << >>, max_chars |-> 0, user_id |-> "u1",
      summary |-> << >>, timestamp |-> 0, user_latest_decide |-> NoDecision,
      entry_decide |-> NoDecision, entry_store |-> [u \in Users |-> << >>],
      store_ops |-> << >> ]

\* the frame of a fresh call of operation o
Fresh(o) == [LocInit EXCEPT !.op = o]

\* decide_search_path builds its prompt and calls chat_limiter_sec.acquire()
decide_search_path_sec(t) ==
    /\ pc[t] = "idle"
    /\ pc' = [pc EXCEPT ![t] = "dsp_sec"]
    /\ loc' = [loc EXCEPT ![t] = Fresh("decide_search_path")]
    /\ EnterAcquire(t, "sec")
    /\ UNCHANGED <<clock, max_calls, period, lock, calls, wake, ret, history, cacheVars>>

\* (a chat operation that goes on without calling the second limiter)
SecondGateSkipped(t, from, to) ==
    /\ pc[t] = from
    /\ apc[t] \in {"returned", "error"}
    /\ pc' = [pc EXCEPT ![t] = to]
    /\ loc' = [loc EXCEPT ![t].acquired = Append(@, lim[t])]
    /\ UNCHANGED <<clock, max_calls, period, lock, calls, apc, lim, to_wait,
                   wake, appends, ret, history, cacheVars>>

\* the second limiter of a chat operation, or the error of the first
SecondGate(t, from, to) ==
    /\ pc[t] = from
    /\ apc[t] \in {"returned", "error"}
    /\ IF apc[t] = "error"
          THEN /\ pc' = [pc EXCEPT ![t] = "done"]
               /\ apc' = [apc EXCEPT ![t] = "none"]
               /\ loc' = [loc EXCEPT ![t].result = Raised]
               /\ UNCHANGED <<lim, to_wait, appends>>
          ELSE /\ pc' = [pc EXCEPT ![t] = to]
               /\ loc' = [loc EXCEPT ![t].acquired = Append(@, lim[t])]
               /\ EnterAcquire(t, "min")
    /\ UNCHANGED <<clock, max_calls, period, lock, calls, wake, ret, history, cacheVars>>

\* chat_limiter_sec.acquire() returned: chat_limiter_min.acquire()
decide_search_path_min(t) == SecondGate(t, "dsp_sec", "dsp_min")

\* the chat request of a gated operation is sent at the current time and
\* answered with the raw text r, or fails (ok = FALSE)
GatedChat(t, from, r, ok, Parse(_)) ==
    /\ pc[t] = from
    /\ apc[t] \in {"returned", "error"}
    /\ pc' = [pc EXCEPT ![t] = "done"]
    /\ apc' = [apc EXCEPT ![t] = "none"]
    /\ IF apc[t] = "error"
          THEN loc' = [loc EXCEPT ![t].result = Raised]
          ELSE loc' = [loc EXCEPT ![t].acquired = Append(@, lim[t]),
                                  ![t].nchat = @ + 1,
                                  ![t].gates = Append(loc[t].acquired, lim[t]),
                                  ![t].sent_at = clock,
                                  ![t].raw = IF ok THEN r ELSE << >>,
                                  ![t].answered = ok,
                                  ![t].result =
                                      IF ok THEN Value(Parse(r)) ELSE Raised]
    /\ UNCHANGED <<clock, max_calls, period, lock, calls, lim, to_wait, wake,
                   appends, ret, history, cacheVars>>

\* client.chat.completions.create(classify_model, ...); strip, upper, match
decide_search_path_chat(t, r, ok) == GatedChat(t, "dsp_min", r, ok, PathDecision)

\* generate_answer builds its prompts and calls chat_limiter_sec.acquire()
generate_answer_sec(t) ==
    /\ pc[t] = "idle"
    /\ pc' = [pc EXCEPT ![t] = "ga_sec"]
    /\ loc' = [loc EXCEPT ![t] = Fresh("generate_answer")]
    /\ EnterAcquire(t, "sec")
    /\ UNCHANGED <<clock, max_calls, period, lock, calls, wake, ret, history, cacheVars>>

generate_answer_min(t) == SecondGate(t, "ga_sec", "ga_min")

\* client_chat.chat.completions.create(chat_model, ...); strip
generate_answer_chat(t, r, ok) == GatedChat(t, "ga_min", r, ok, Strip)

\* summarize_context: one chat request, the trimmed reply is returned
summarize_context(t, r, ok) ==
    /\ pc[t] = "idle"
    /\ loc' = [loc EXCEPT ![t] =
                 [Fresh("summarize_context") EXCEPT
                     !.nchat = 1,
                     !.gates = << >>,
                     !.sent_at = clock,
                     !.result = IF ok THEN Value(Strip(r)) ELSE Raised]]
    /\ pc' = [pc EXCEPT ![t] = "done"]
    /\ UNCHANGED <<clock, max_calls, period, lock, calls, apc, lim,
                   to_wait, wake, appends, ret, history, cacheVars>>

\* if len(text) <= max_chars: return text
FitsLoose(text, mc) == Len(text) < mc
Fits(text, mc) == Len(text) <= mc

\* summarize_text(text, max_chars, user_id): the length test
summarize_text(t, text, mc, u) ==
    /\ pc[t] = "idle"
    /\ LET f == [Fresh("summarize_text") EXCEPT
                    !.text = text, !.max_chars = mc, !.user_id = u,
                    !.entry_decide = get_latest_decide(history, u),
                    !.entry_store = history]
       IN  IF Fits(text, mc)
              THEN /\ loc' = [loc EXCEPT ![t] = [f EXCEPT !.result = Value(text)]]
                   /\ pc' = [pc EXCEPT ![t] = "done"]
              ELSE /\ loc' = [loc EXCEPT ![t] = f]
                   /\ pc' = [pc EXCEPT ![t] = "st_chat"]
    /\ UNCHANGED <<clock, max_calls, period, lock, calls, apc, lim, to_wait,
                   wake, appends, ret, history, cacheVars>>

\* (the chat call made after the history has been deleted)
summarize_text_chatAfterDelete(t, r, ok) ==
    /\ pc[t] = "st_chat"
    /\ history' = del_chat_history(history, loc[t].user_id)
    /\ loc' = [loc EXCEPT
                 ![t].nchat = @ + 1,
                 ![t].store_ops =
                     Append(@, StoreCall("del", loc[t].user_id, "", << >>, "")),
                 ![t].summary = IF ok THEN Strip(r) ELSE @,
                 ![t].timestamp = IF ok THEN clock ELSE @,
                 ![t].result = IF ok THEN @ ELSE Raised]
    /\ pc' = [pc EXCEPT ![t] = IF ok THEN "st_get" ELSE "done"]
    /\ UNCHANGED <<clock, max_calls, period, lock, calls, apc, lim, to_wait,
                   wake, appends, ret, cacheVars>>

\* client.chat.completions.create(summary_model, ...); summary = ....strip();
\* timestamp = datetime.now(...)
summarize_text_chat(t, r, ok) ==
    /\ pc[t] = "st_chat"
    /\ IF ok
          THEN /\ loc' = [loc EXCEPT ![t].nchat = @ + 1,
                                     ![t].gates = loc[t].acquired,
                                     ![t].sent_at = clock,
                                     ![t].summary = Strip(r),
                                     ![t].timestamp = clock]
               /\ pc' = [pc EXCEPT ![t] = "st_del"]
          ELSE /\ loc' = [loc EXCEPT ![t].nchat = @ + 1,
                                     ![t].gates = loc[t].acquired,
                                     ![t].sent_at = clock,
                                     ![t].result = Raised]
               /\ pc' = [pc EXCEPT ![t] = "done"]
    /\ UNCHANGED <<clock, max_calls, period, lock, calls, apc, lim, to_wait,
                   wake, appends, ret, history, cacheVars>>

\* del_chat_history(user_id)
summarize_text_del(t) ==
    /\ pc[t] = "st_del"
    /\ history' = del_chat_history(history, loc[t].user_id)
    /\ loc' = [loc EXCEPT ![t].store_ops =
                              Append(@, StoreCall("del", loc[t].user_id, "", << >>, ""))]
    /\ pc' = [pc EXCEPT ![t] = "st_get"]
    /\ UNCHANGED <<clock, max_calls, period, lock, calls, apc, lim, to_wait,
                   wake, appends, ret, cacheVars>>

\* user_latest_decide = get_latest_decide(user_id)
summarize_text_get(t) ==
    /\ pc[t] = "st_get"
    /\ loc' = [loc EXCEPT ![t].user_latest_decide =
                              get_latest_decide(history, loc[t].user_id),
                          ![t].store_ops =
                              Append(@, StoreCall("get", loc[t].user_id, "", << >>, ""))]
    /\ pc' = [pc EXCEPT ![t] = "st_save"]
    /\ UNCHANGED <<clock, max_calls, period, lock, calls, apc, lim, to_wait,
                   wake, appends, ret, history, cacheVars>>

\* save_chat_history(user_id, "assistant", summary, timestamp, ...); return summary
summarize_text_save(t) ==
    /\ pc[t] = "st_save"
    /\ history' = save_chat_history(history, loc[t].user_id, "assistant",
                                    loc[t].summary, loc[t].timestamp,
                                    loc[t].user_latest_decide)
    /\ loc' = [loc EXCEPT ![t].store_ops =
                              Append(@, StoreCall("save", loc[t].user_id, "assistant",
                                                  loc[t].summary,
                                                  loc[t].user_latest_decide)),
                          ![t].result = Value(loc[t].summary)]
    /\ pc' = [pc EXCEPT ![t] = "done"]
    /\ UNCHANGED <<clock, max_calls, period, lock, calls, apc, lim, to_wait,
                   wake, appends, ret, cacheVars>>

\* the caller takes the result (or the error) of the finished operation
Return(t) ==
    /\ pc[t] = "done"
    /\ pc' = [pc EXCEPT ![t] = "idle"]
    /\ loc' = [loc EXCEPT ![t] = LocInit]
    /\ to_wait' = [to_wait EXCEPT ![t] = 0]
    /\ appends' = [appends EXCEPT ![t] = 0]
    /\ lim' = [lim EXCEPT ![t] = "sec"]
    /\ UNCHANGED <<clock, max_calls, period, lock, calls, apc, wake, ret,
                   history, cacheVars>>

\* ------------------------------------------------------------ cache keys
\* text.replace("\n", " ")
ReplaceNewlines(s) == [i \in 1..Len(s) |-> IF s[i] = "\n" THEN " " ELSE s[i]]

\* hashlib.md5(normalized.encode("utf-8")).hexdigest(): one digest per text,
\* a block of hexadecimal digits of a fixed length
Md5Hex(s) == << <<"md5", s>> >>

\* str(n) of an integer: its decimal digits, a minus sign first when negative
RECURSIVE Digits(_)
Digits(n) ==
    IF n < 0 THEN <<"-">> \o Digits(0 - n)
    ELSE IF n < 10 THEN << <<"0", "1", "2", "3", "4", "5", "6", "7", "8", "9">>[n + 1] >>
    ELSE Digits(n \div 10) \o Digits(n % 10)

\* normalized = text.replace("\n", " ").strip(), as embed_text does
EmbedNormalized(text) == Strip(ReplaceNewlines(text))

\* key = "embed:" + md5(normalized)
embedding_key(text) ==
    <<"e", "m", "b", "e", "d", ":">> \o Md5Hex(EmbedNormalized(text))

\* key = f"search:{'svc' if service else 'prd'}:" + md5(query.strip()) + f"|{top_k}|{skip_k}"
search_keyNoSkip(query, top_k, skip_k, service) ==
    <<"s", "e", "a", "r", "c", "h", ":">>
      \o (IF service THEN <<"s", "v", "c">> ELSE <<"p", "r", "d">>) \o <<":">>
      \o Md5Hex(Strip(query)) \o <<"|">> \o Digits(top_k)
search_key(query, top_k, skip_k, service) ==
    <<"s", "e", "a", "r", "c", "h", ":">>
      \o (IF service THEN <<"s", "v", "c">> ELSE <<"p", "r", "d">>) \o <<":">>
      \o Md5Hex(Strip(query))
      \o <<"|">> \o Digits(top_k) \o <<"|">> \o Digits(skip_k)

\* ------------------------------------------------------------- the cache
SEARCH_CACHE_TTL == 3600
EMBED_CACHE_TTL_AsSearch == SEARCH_CACHE_TTL
EMBED_CACHE_TTL == 24 * 3600
\* seconds per tick of the cache server's clock
TtlUnit == 1800

\* mc_client.get(key) of a key that is absent or expired
None == << >>

\* pickle.dumps / pickle.loads
Pickle(v) == <<"pickle", v>>
Loads(b) == b[2]

\* mc_client.get(key)
McGet(c, key) == IF key \in DOMAIN c THEN c[key].value ELSE None

\* mc_client.set(key, value, ttl)
McSet(c, key, value, ttl) ==
    [k \in DOMAIN c \cup {key} |->
        IF k = key THEN [value |-> value, ttl |-> ttl, left |-> ttl \div TtlUnit]
        ELSE c[k]]

\* if cached:   (cached is None or the pickled bytes)
CacheHitOnContent(cached) == cached # None /\ Loads(cached) # << >>
CacheHit(cached) == Len(cached) > 0

\* one tick of the cache server's clock: entries age, expired ones are gone
McTick ==
    /\ cache' = [k \in {x \in DOMAIN cache : cache[x].left > 1} |->
                    [cache[k] EXCEPT !.left = @ - 1]]
    /\ prev' = [t \in Threads |->
                  [prev[t] EXCEPT
                     !.left = Dec(@),
                     !.ago = IF @ * TtlUnit < SEARCH_CACHE_TTL THEN @ + 1 ELSE @]]
    /\ UNCHANGED <<clock, max_calls, period, lock, calls, pc, apc, lim,
                   to_wait, wake, appends, ret, engVars, cl>>

\* ------------------------------------------------------ result formatting
Separator == <<"=================\n">>

\* print_results(results): seven lines per result, in one flat list
print_results(results) ==
    LET Lines(r) ==
          << <<"Product Segment: ", <<r, "Product_Segment">> >>,
             <<"Product Name: ", <<r, "Product_Name">> >>,
             <<"Unique Point: ", <<r, "Unique_Pros">> >>,
             <<"Product Benefit: ", <<r, "Benefit">> >>,
             <<"Product Condition: ", <<r, "Condition">> >>,
             <<"Product Description: ", <<r, "Product_Description">> >>,
             <<"URL: ", <<r, "Product_URL">>, "\n">> >>
    IN  [i \in 1..(7 * Len(results)) |-> Lines(results[((i - 1) \div 7) + 1])[((i - 1) % 7) + 1]]

\* print_results_service(results): four lines per result, in one flat list
print_results_service(results) ==
    LET Lines(r) ==
          << <<"Service Segment: ", <<r, "Service_Segment">> >>,
             <<"Service Name: ", <<r, "Service_Name">> >>,
             <<"Service Detail: ", <<r, "Service_Detail">> >>,
             <<"URL: ", <<r, "Service_URL">>, "\n">> >>
    IN  [i \in 1..(4 * Len(results)) |-> Lines(results[((i - 1) \div 4) + 1])[((i - 1) % 4) + 1]]

\* sep.join(parts): the parts with sep between every two neighbours
Join(sep, parts) ==
    [i \in 1..(IF Len(parts) = 0 THEN 0 ELSE 2 * Len(parts) - 1) |->
        IF i % 2 = 1 THEN parts[(i + 1) \div 2] ELSE sep]

\* text = "=================\n".join(print_results_service(results) if service
\*                                 else print_results(results))
FormatResults(results, service) ==
    Join(Separator, IF service THEN print_results_service(results)
                    ELSE print_results(results))

\* ------------------------------------------- embed_text, get_search_results
ClInit ==
    [ op |-> "none", query |-> << >>, top_k |-> 0, skip_k |-> 0,
      service |-> FALSE, held |-> None, vect |-> << >>,
      results |-> << >>, computed |-> FALSE, result |-> NoResult,
      emb_inputs |-> << >>, search_calls |-> 0, sets |-> << >>,
      again |-> FALSE, repeat |-> FALSE, key |-> << >> ]

PrevInit ==
    [ valid |-> FALSE, query |-> << >>, top_k |-> 0, skip_k |-> 0,
      service |-> FALSE, result |-> NoResult, search_calls |-> 0,
      wrote |-> FALSE, left |-> 0, ago |-> 0 ]

\* a call of mc_client.set, as logged by the calling operation
SetCall(key, value, ttl) == [key |-> key, value |-> value, ttl |-> ttl]

\* the statements that follow a provider call: they take effect when the call
\* returned (ok) and are skipped when it raised
AfterCallAnyway(ok, effect, skipped) == effect
AfterCall(ok, effect, skipped) == IF ok THEN effect ELSE skipped

\* embed_text(text) up to its return on a hit:
\* normalise, derive the key, mc_client.get, if cached: return pickle.loads(cached)
embed_text(t, text) ==
    /\ pc[t] = "idle"
    /\ LET f == [ClInit EXCEPT !.op = "embed_text", !.query = text,
                               !.key = embedding_key(text),
                               !.held = McGet(cache, embedding_key(text))]
           cached == McGet(cache, embedding_key(text))
       IN  IF CacheHit(cached)
              THEN /\ cl' = [cl EXCEPT ![t] = [f EXCEPT !.result = Value(Loads(cached))]]
                   /\ pc' = [pc EXCEPT ![t] = "c_done"]
              ELSE /\ cl' = [cl EXCEPT ![t] = f]
                   /\ pc' = [pc EXCEPT ![t] = "et_create"]
    /\ UNCHANGED <<clock, max_calls, period, lock, calls, apc, lim, to_wait,
                   wake, appends, ret, engVars, cache, prev>>

\* client.embeddings.create(input=normalized, ...); mc_client.set(...);
\* return embedding - to the caller, or into vect of get_search_results
embed_text_create(t, v, ok) ==
    /\ pc[t] = "et_create"
    /\ LET key == embedding_key(cl[t].query)
           called == [cl[t] EXCEPT !.emb_inputs =
                                      Append(@, EmbedNormalized(cl[t].query))]
           stored == [called EXCEPT !.sets =
                                      Append(@, SetCall(key, Pickle(v), EMBED_CACHE_TTL))]
       IN  IF ok
              THEN /\ cache' = McSet(cache, key, Pickle(v), EMBED_CACHE_TTL)
                   /\ IF cl[t].op = "embed_text"
                         THEN /\ cl' = [cl EXCEPT ![t] =
                                          [stored EXCEPT !.result = Value(v)]]
                              /\ pc' = [pc EXCEPT ![t] = "c_done"]
                         ELSE /\ cl' = [cl EXCEPT ![t] = [stored EXCEPT !.vect = v]]
                              /\ pc' = [pc EXCEPT ![t] = "gs_search"]
              ELSE /\ cache' = AfterCall(ok, McSet(cache, key, Pickle(v),
                                                     EMBED_CACHE_TTL), cache)
                   /\ cl' = [cl EXCEPT ![t] =
                               [called EXCEPT
                                  !.sets = AfterCall(ok, stored.sets, called.sets),
                                  !.result = Raised]]
                   /\ pc' = [pc EXCEPT ![t] = "c_done"]
    /\ UNCHANGED <<clock, max_calls, period, lock, calls, apc, lim, to_wait,
                   wake, appends, ret, engVars, prev>>

\* get_search_results(query, top_k, skip_k, service) up to its return on a hit
get_search_results(t, query, top_k, skip_k, service) ==
    /\ pc[t] = "idle"
    /\ LET f == [ClInit EXCEPT
                    !.op = "get_search_results", !.query = query,
                    !.top_k = top_k, !.skip_k = skip_k, !.service = service,
                    !.key = search_key(query, top_k, skip_k, service),
                    !.held = McGet(cache, search_key(query, top_k, skip_k, service)),
                    !.again = /\ prev[t].valid
                              /\ prev[t].wrote
                              /\ prev[t].left > 0
                              /\ prev[t].query = query
                              /\ prev[t].top_k = top_k
                              /\ prev[t].skip_k = skip_k
                              /\ prev[t].service = service,
                    !.repeat = /\ prev[t].valid
                               /\ prev[t].result.kind = "value"
                               /\ prev[t].ago * TtlUnit < SEARCH_CACHE_TTL
                               /\ prev[t].query = query
                               /\ prev[t].top_k = top_k
                               /\ prev[t].skip_k = skip_k
                               /\ prev[t].service = service]
           cached == McGet(cache, search_key(query, top_k, skip_k, service))
       IN  IF CacheHit(cached)
              THEN /\ cl' = [cl EXCEPT ![t] = [f EXCEPT !.result = Value(Loads(cached))]]
                   /\ pc' = [pc EXCEPT ![t] = "c_done"]
              ELSE /\ cl' = [cl EXCEPT ![t] = f]
                   /\ pc' = [pc EXCEPT ![t] = "gs_embed"]
    /\ UNCHANGED <<clock, max_calls, period, lock, calls, apc, lim, to_wait,
                   wake, appends, ret, engVars, cache, prev>>

\* vect = embed_text(query): the cache look-up of the inner call
get_search_results_embed(t) ==
    /\ pc[t] = "gs_embed"
    /\ LET cached == McGet(cache, embedding_key(cl[t].query))
       IN  IF CacheHit(cached)
              THEN /\ cl' = [cl EXCEPT ![t].vect = Loads(cached)]
                   /\ pc' = [pc EXCEPT ![t] = "gs_search"]
              ELSE /\ cl' = cl
                   /\ pc' = [pc EXCEPT ![t] = "et_create"]
    /\ UNCHANGED <<clock, max_calls, period, lock, calls, apc, lim, to_wait,
                   wake, appends, ret, engVars, cache, prev>>

\* results = client_to_use.search(...); text = join(...); mc_client.set(...);
\* return text
get_search_results_search(t, rows, ok) ==
    /\ pc[t] = "gs_search"
    /\ Len(rows) <= cl[t].top_k
    /\ LET key == search_key(cl[t].query, cl[t].top_k, cl[t].skip_k, cl[t].service)
           text == FormatResults(rows, cl[t].service)
       IN  IF ok
              THEN /\ cache' = McSet(cache, key, Pickle(text), SEARCH_CACHE_TTL)
                   /\ cl' = [cl EXCEPT
                               ![t].search_calls = @ + 1,
                               ![t].results = rows,
                               ![t].computed = TRUE,
                               ![t].sets = Append(@, SetCall(key, Pickle(text),
                                                            SEARCH_CACHE_TTL)),
                               ![t].result = Value(text)]
              ELSE /\ cache' = AfterCall(ok, McSet(cache, key, Pickle(text),
                                                     SEARCH_CACHE_TTL), cache)
                   /\ cl' = [cl EXCEPT
                               ![t].search_calls = @ + 1,
                               ![t].sets = AfterCall(ok,
                                   Append(@, SetCall(key, Pickle(text), SEARCH_CACHE_TTL)),
                                   @),
                               ![t].result = Raised]
    /\ pc' = [pc EXCEPT ![t] = "c_done"]
    /\ UNCHANGED <<clock, max_calls, period, lock, calls, apc, lim, to_wait,
                   wake, appends, ret, engVars, prev>>

\* lines 76-77 of embed_text alone: the key derived from a text
derive_embedding_key(t, text) ==
    /\ pc[t] = "idle"
    /\ cl' = [cl EXCEPT ![t] = [ClInit EXCEPT !.op = "embedding_key",
                                               !.query = text,
                                               !.key = embedding_key(text)]]
    /\ UNCHANGED <<clock, max_calls, period, lock, calls, pc, apc, lim, to_wait,
                   wake, appends, ret, engVars, cache, prev>>

\* lines 116-117 of get_search_results alone: the key derived from the arguments
derive_search_key(t, query, top_k, skip_k, service) ==
    /\ pc[t] = "idle"
    /\ cl' = [cl EXCEPT ![t] =
                 [ClInit EXCEPT !.op = "search_key", !.query = query,
                                !.top_k = top_k, !.skip_k = skip_k,
                                !.service = service,
                                !.key = search_key(query, top_k, skip_k, service)]]
    /\ UNCHANGED <<clock, max_calls, period, lock, calls, pc, apc, lim, to_wait,
                   wake, appends, ret, engVars, cache, prev>>

\* the caller takes the result of embed_text or get_search_results
CacheReturn(t) ==
    /\ pc[t] = "c_done"
    /\ pc' = [pc EXCEPT ![t] = "idle"]
    /\ prev' = [prev EXCEPT ![t] =
                  IF cl[t].op = "get_search_results"
                     THEN [ valid |-> TRUE, query |-> cl[t].query,
                            top_k |-> cl[t].top_k, skip_k |-> cl[t].skip_k,
                            service |-> cl[t].service, result |-> cl[t].result,
                            search_calls |-> cl[t].search_calls,
                            wrote |-> cl[t].computed, ago |-> 0,
                            left |-> IF cl[t].computed
                                        THEN LET key == search_key(cl[t].query,
                                                   cl[t].top_k, cl[t].skip_k,
                                                   cl[t].service)
                                             IN  IF key \in DOMAIN cache
                                                    THEN cache[key].left ELSE 0
                                        ELSE 0 ]
                     ELSE prev[t]]
    /\ cl' = [cl EXCEPT ![t] = ClInit]
    /\ UNCHANGED <<clock, max_calls, period, lock, calls, apc, lim, to_wait,
                   wake, appends, ret, engVars, cache>>

\* state after construction of the limiters and before any call
InitThreads ==
    /\ pc = [t \in Threads |-> "idle"]
    /\ apc = [t \in Threads |-> "none"]
    /\ lim = [t \in Threads |-> "sec"]
    /\ to_wait = [t \in Threads |-> 0]
    /\ wake = [t \in Threads |-> 0]
    /\ appends = [t \in Threads |-> 0]
    /\ ret = [t \in Threads |-> "none"]
    /\ loc = [t \in Threads |-> LocInit]
    /\ cl = [t \in Threads |-> ClInit]
    /\ prev = [t \in Threads |-> PrevInit]
    /\ cache = << >>

\* RateLimiter.__init__ for a limiter of any small configuration
InitRL ==
    /\ clock = 0
    /\ \E mc \in 1..MaxMaxCalls, p \in 1..MaxPeriod :
          /\ max_calls = [l \in Limiters |-> mc]
          /\ period = [l \in Limiters |-> p]
    /\ lock = [l \in Limiters |-> NoThread]
    /\ calls = [l \in Limiters |-> << >>]
    /\ InitThreads
    /\ history = [u \in Users |-> << >>]

NextRL ==
    \/ Tick
    \/ \E t \in Threads : AcquireCall(t, "sec")
    \/ \E t \in Threads : Lock(t)
    \/ \E t \in Threads : Check(t)
    \/ \E t \in Threads : Wake(t)
    \/ \E t \in Threads : Record(t)
    \/ \E t \in Threads : AcquireReturn(t)

SpecRL == InitRL /\ [][NextRL]_vars

\* thread t can take a step of acquire() right now
Busy(t) ==
    \/ apc[t] = "lock" /\ lock[lim[t]] = NoThread
    \/ apc[t] \in {"check", "append"}
    \/ apc[t] = "sleeping" /\ clock >= wake[t]
    \/ pc[t] = "acquire" /\ apc[t] \in {"returned", "error"}

\* time passes only while every thread inside acquire() waits for the lock or
\* sleeps: threads are never delayed by the scheduler
PromptTick == (\A t \in Threads : ~Busy(t)) /\ Elapse(TRUE)

NextPrompt ==
    \/ PromptTick
    \/ \E t \in Threads : AcquireCall(t, "sec")
    \/ \E t \in Threads : Lock(t)
    \/ \E t \in Threads : Check(t)
    \/ \E t \in Threads : Wake(t)
    \/ \E t \in Threads : Record(t)
    \/ \E t \in Threads : AcquireReturn(t)

\* the limiter with threads that run without scheduling delays
SpecPrompt == InitRL /\ [][NextPrompt]_vars

\* chat_limiter_sec = RateLimiter(5, 1); chat_limiter_min = RateLimiter(200, 60),
\* scaled down to the bounds of the model
InitChat ==
    /\ clock = 0
    /\ max_calls = [l \in Limiters |->
                      IF l = "sec" THEN SecMaxCalls ELSE MinMaxCalls]
    /\ period = [l \in Limiters |-> IF l = "sec" THEN SecPeriod ELSE MinPeriod]
    /\ lock = [l \in Limiters |-> NoThread]
    /\ calls = [l \in Limiters |-> << >>]
    /\ InitThreads
    /\ history = [u \in Users |-> << >>]

\* raw replies of the chat provider to the concurrent callers
FewReplies == { <<" ", "more">> }

NextChat ==
    \/ Tick
    \/ \E t \in Threads : decide_search_path_sec(t)
    \/ \E t \in Threads : decide_search_path_min(t)
    \/ \E t \in Threads, r \in FewReplies, ok \in BOOLEAN :
          decide_search_path_chat(t, r, ok)
    \/ \E t \in Threads : generate_answer_sec(t)
    \/ \E t \in Threads : generate_answer_min(t)
    \/ \E t \in Threads, r \in FewReplies, ok \in BOOLEAN :
          generate_answer_chat(t, r, ok)
    \/ \E t \in Threads : Return(t)
    \/ \E t \in Threads : Lock(t)
    \/ \E t \in Threads : Check(t)
    \/ \E t \in Threads : Wake(t)
    \/ \E t \in Threads : Record(t)

SpecChat == InitChat /\ [][NextChat]_vars

\* the conversation engine driven by one caller at a time
EngineThreads == {1}

\* texts handed to summarize_text
TextChars == {"a", " "}
RECURSIVE SeqsUpTo(_, _)
SeqsUpTo(S, n) ==
    IF n = 0 THEN { << >> }
    ELSE LET shorter == SeqsUpTo(S, n - 1)
         IN  shorter \cup {Append(x, c) : x \in shorter, c \in S}
Texts == SeqsUpTo(TextChars, MaxTextLen + 1)

\* raw replies of the chat provider
Replies ==
    { <<"MORE">>, <<" ", "more", "\n">>, <<"banana">>, << >>,
      <<"MORE", " ", "please">>, <<"continue", " ", "conversation">>,
      <<"continue", "\n", "conversation">>,
      <<"off-topic">>, <<"insurance_product">>, <<"INSURANCE_SERVICE">> }

\* raw replies of the chat provider to a summarisation request
SummaryReplies == { <<"s">>, <<" ", "t", "\n">>, <<" ">> }

\* what the store may hold for a user before the engine runs
StoredBefore ==
    { << >> } \cup
    { << [role |-> "user", content |-> <<"a">>, timestamp |-> 0, decision |-> d] >> :
        d \in {"MORE", "INSURANCE_PRODUCT"} }

InitEngine ==
    /\ clock = 0
    /\ max_calls = [l \in Limiters |->
                      IF l = "sec" THEN SecMaxCalls ELSE MinMaxCalls]
    /\ period = [l \in Limiters |-> IF l = "sec" THEN SecPeriod ELSE MinPeriod]
    /\ lock = [l \in Limiters |-> NoThread]
    /\ calls = [l \in Limiters |-> << >>]
    /\ InitThreads
    /\ history \in [Users -> StoredBefore]

NextEngine ==
    \/ Tick
    \/ \E t \in EngineThreads : decide_search_path_sec(t)
    \/ \E t \in EngineThreads : decide_search_path_min(t)
    \/ \E t \in EngineThreads, r \in Replies, ok \in BOOLEAN :
          decide_search_path_chat(t, r, ok)
    \/ \E t \in EngineThreads : generate_answer_sec(t)
    \/ \E t \in EngineThreads : generate_answer_min(t)
    \/ \E t \in EngineThreads, r \in SummaryReplies, ok \in BOOLEAN :
          generate_answer_chat(t, r, ok)
    \/ \E t \in EngineThreads, r \in SummaryReplies, ok \in BOOLEAN :
          summarize_context(t, r, ok)
    \/ \E t \in EngineThreads, text \in {<<"a">>, <<"a", " ", "a">>}, u \in {"u1"} :
          summarize_text(t, text, 2, u)
    \/ \E t \in EngineThreads, r \in SummaryReplies, ok \in BOOLEAN :
          summarize_text_chat(t, r, ok)
    \/ \E t \in EngineThreads : summarize_text_del(t)
    \/ \E t \in EngineThreads : summarize_text_get(t)
    \/ \E t \in EngineThreads : summarize_text_save(t)
    \/ \E t \in EngineThreads : Return(t)
    \/ \E t \in EngineThreads : Lock(t)
    \/ \E t \in EngineThreads : Check(t)
    \/ \E t \in EngineThreads : Wake(t)
    \/ \E t \in EngineThreads : Record(t)

SpecEngine == InitEngine /\ [][NextEngine]_vars

\* summarize_text alone, for every small text, limit and user
NextSummarize ==
    \/ Tick
    \/ \E t \in EngineThreads, text \in Texts, mc \in 0..MaxTextLen, u \in Users :
          summarize_text(t, text, mc, u)
    \/ \E t \in EngineThreads, r \in SummaryReplies, ok \in BOOLEAN :
          summarize_text_chat(t, r, ok)
    \/ \E t \in EngineThreads : summarize_text_del(t)
    \/ \E t \in EngineThreads : summarize_text_get(t)
    \/ \E t \in EngineThreads : summarize_text_save(t)
    \/ \E t \in EngineThreads : Return(t)

SpecSummarize == InitEngine /\ [][NextSummarize]_vars

\* number of threads whose latest gated chat request was issued in the w
\* ticks that start at tick a
IssuedIn(a, w) ==
    Cardinality({t \in Threads :
                   /\ loc[t].op \in {"decide_search_path", "generate_answer"}
                   /\ loc[t].sent_at \in a..(a + w - 1)})

\* C2: the chat requests of classify and generate_answer are bounded on both
\* windows: in any interval of one period of a limiter at most max_calls of
\* that limiter are issued.
C2_IssueRateBounded ==
    \A l \in Limiters : \A a \in 0..Horizon :
        IssuedIn(a, period[l]) <= max_calls[l]

\* C1: in every reachable state each limiter holds at most max_calls time
\* stamps newer than now - period.
C1_WindowBound == \A l \in Limiters : InWindow(l) <= max_calls[l]

\* a thread that slept inside acquire() is about to return
\* a sleeping acquire() has just appended its time stamp
C1_Witness ==
    \E t \in Threads :
        /\ apc[t] = "returned"
        /\ to_wait[t] > 0
        /\ Len(calls[lim[t]]) = max_calls[lim[t]] + 1
        /\ InWindow(lim[t]) = max_calls[lim[t]]

\* scheduling: the clock advances, a runnable thread runs, and a thread
\* waiting for a lock that is released again and again gets it eventually
FairRL ==
    /\ WF_vars(Tick)
    /\ \A t \in Threads :
          /\ SF_vars(Lock(t))
          /\ WF_vars(Check(t))
          /\ WF_vars(Wake(t))
          /\ WF_vars(Record(t))
          /\ WF_vars(AcquireReturn(t))

LiveSpecRL == InitRL /\ [][NextRL]_vars /\ FairRL

\* C4: every invocation of acquire() eventually returns, without an error,
\* having appended exactly one time stamp.
C4_NeverDropped ==
    \A t \in Threads :
        (pc[t] = "acquire") ~> (pc[t] = "idle" /\ ret[t] = "ok" /\ appends[t] = 1)

\* an acquire() that had to sleep has returned
C4_Witness ==
    \E t \in Threads :
        /\ pc[t] = "idle"
        /\ ret[t] = "ok"
        /\ to_wait[t] > 0
        /\ appends[t] = 1

\* the gateways driven by one caller at a time
CacheThreads == {1}
Queries == { <<"q">>, <<" ", "q", "\n">> }
TopKs == {2}
SkipKs == {0}
Vectors == { <<1, 0>>, <<0, 1>> }
RowIds == {"r1"}
ResultLists == SeqsUpTo(RowIds, MaxRows)

\* an empty cache server; the limiters and the history store are not used
InitCache == InitChat

NextCache ==
    \/ McTick
    \/ \E t \in CacheThreads, text \in Queries : embed_text(t, text)
    \/ \E t \in CacheThreads, v \in Vectors, ok \in BOOLEAN :
          embed_text_create(t, v, ok)
    \/ \E t \in CacheThreads, q \in Queries, k \in TopKs, sk \in SkipKs,
          svc \in BOOLEAN : get_search_results(t, q, k, sk, svc)
    \/ \E t \in CacheThreads : get_search_results_embed(t)
    \/ \E t \in CacheThreads, rows \in ResultLists, ok \in BOOLEAN :
          get_search_results_search(t, rows, ok)
    \/ \E t \in CacheThreads : CacheReturn(t)

SpecCache == InitCache /\ [][NextCache]_vars

\* the gateways called by several threads at once, on one query, within a
\* span of time too short for any entry to expire
SharedQueries == { <<"q">> }

NextShared ==
    \/ \E t \in Threads, text \in SharedQueries : embed_text(t, text)
    \/ \E t \in Threads, v \in Vectors, ok \in BOOLEAN :
          embed_text_create(t, v, ok)
    \/ \E t \in Threads, q \in SharedQueries, k \in TopKs, sk \in SkipKs :
          get_search_results(t, q, k, sk, FALSE)
    \/ \E t \in Threads : get_search_results_embed(t)
    \/ \E t \in Threads, rows \in ResultLists, ok \in BOOLEAN :
          get_search_results_search(t, rows, ok)
    \/ \E t \in Threads : CacheReturn(t)

SpecShared == InitCache /\ [][NextShared]_vars

\* the two key derivations on arbitrary arguments, two at a time
KeyThreads == {1, 2}
KeyTexts == SeqsUpTo({"q", " "}, MaxKeyLen)
KeyTopKs == {1, 12}
KeySkipKs == {3, 23}

InitKeys == InitChat

NextKeys ==
    \/ \E t \in KeyThreads, text \in KeyTexts : derive_embedding_key(t, text)
    \/ \E t \in KeyThreads, q \in KeyTexts, k \in KeyTopKs, sk \in KeySkipKs,
          svc \in BOOLEAN : derive_search_key(t, q, k, sk, svc)

SpecKeys == InitKeys /\ [][NextKeys]_vars

\* ------------------------------------------------------------------ C3
GatedOps == {"decide_search_path", "generate_answer"}

\* C3 as stated: whoever has issued a chat request has acquired a limiter
\* before it, in the same invocation.
C3_EveryChatGated ==
    \A t \in Threads : loc[t].nchat > 0 => loc[t].gates # << >>

\* C3 as amended: the chat request of decide_search_path and of
\* generate_answer comes after chat_limiter_sec.acquire() and then
\* chat_limiter_min.acquire() of the same invocation; summarize_text and
\* summarize_context issue theirs without any acquire().
C3_ClassifyAndAnswerGated ==
    \A t \in Threads :
        loc[t].nchat > 0 =>
            IF loc[t].op \in GatedOps
               THEN loc[t].gates = <<"sec", "min">>
               ELSE loc[t].gates = << >>

\* a classification has issued its request after both gates
C3_Witness ==
    \E t \in Threads :
        /\ pc[t] = "done"
        /\ loc[t].op = "decide_search_path"
        /\ loc[t].nchat = 1
        /\ loc[t].gates = <<"sec", "min">>

\* --------------------------------------------------------- summarize_text
\* a finished summarize_text of an over-length text whose chat call succeeded
Compacted(t) ==
    /\ pc[t] = "done"
    /\ loc[t].op = "summarize_text"
    /\ Len(loc[t].text) > loc[t].max_chars
    /\ loc[t].result.kind = "value"

\* a text with no white space at either end
Trimmed(s) == s = << >> \/ (s[1] \notin WhiteSpace /\ s[Len(s)] \notin WhiteSpace)

\* the entry stored last for the user of the call
LastStored(t) == history[loc[t].user_id][Len(history[loc[t].user_id])]

\* C8: the summary is saved with the decision that was the user's latest
\* stored decision when the call started.
C8_SavedWithEntryDecision ==
    \A t \in Threads :
        Compacted(t) =>
            /\ history[loc[t].user_id] # << >>
            /\ LastStored(t).decision = loc[t].entry_decide
            /\ loc[t].store_ops[Len(loc[t].store_ops)].decision = loc[t].entry_decide

\* C9: an over-length text whose chat call succeeds causes exactly one
\* deletion and then exactly one save, of an assistant entry whose content
\* is the trimmed summary that the call returns.
C9_OneDeleteThenOneSave ==
    \A t \in Threads :
        Compacted(t) =>
            LET writes == SelectSeq(loc[t].store_ops, LAMBDA o : o.call # "get")
            IN  /\ Len(writes) = 2
                /\ writes[1].call = "del"
                /\ writes[1].user_id = loc[t].user_id
                /\ writes[2].call = "save"
                /\ writes[2].user_id = loc[t].user_id
                /\ writes[2].role = "assistant"
                /\ writes[2].content = loc[t].result.val
                /\ Trimmed(loc[t].result.val)

\* the provider's reply had white space around it and the user had a history
C9_Witness ==
    \E t \in Threads :
        /\ Compacted(t)
        /\ loc[t].entry_store[loc[t].user_id] # << >>
        /\ loc[t].result.val = <<"t">>
        /\ Len(loc[t].store_ops) = 3

\* C10: a text of at most max_chars characters is returned unchanged, with
\* no chat call and no deletion, read or save on the history store.
C10_ShortTextUntouched ==
    \A t \in Threads :
        (pc[t] = "done" /\ loc[t].op = "summarize_text"
            /\ Len(loc[t].text) <= loc[t].max_chars) =>
            /\ loc[t].result = Value(loc[t].text)
            /\ loc[t].nchat = 0
            /\ loc[t].store_ops = << >>
            /\ history = loc[t].entry_store

\* the boundary: a non-empty text of exactly max_chars characters, for a
\* user with a stored history
C10_Witness ==
    \E t \in Threads :
        /\ pc[t] = "done"
        /\ loc[t].op = "summarize_text"
        /\ Len(loc[t].text) = loc[t].max_chars
        /\ loc[t].max_chars > 0
        /\ history[loc[t].user_id] # << >>
        /\ loc[t].result = Value(loc[t].text)

\* ------------------------------------------------------------------ C6
\* embed_text(text) has returned
Embedded(t) == pc[t] = "c_done" /\ cl[t].op = "embed_text"

\* the cache held an unexpired entry under the key of the call when the key
\* was looked up
HeldOnEntry(t) == cl[t].held # None

\* C6: embed_text - when the cache holds an unexpired entry under
\* embedding_key(text) the call returns the stored vector, calls no embedding
\* provider and writes nothing; otherwise it calls the embedding provider
\* exactly once, with the normalized text (no newline, no surrounding white
\* space), and when the provider returns a vector the call writes it under
\* embedding_key(text) with a TTL of 86400 s and returns it
C6_EmbedHitOrMiss ==
    \A t \in Threads :
       Embedded(t) =>
          LET key == embedding_key(cl[t].query)
          IN  IF HeldOnEntry(t)
                 THEN /\ cl[t].result = Value(Loads(cl[t].held))
                      /\ cl[t].emb_inputs = << >>
                      /\ cl[t].sets = << >>
                 ELSE /\ Len(cl[t].emb_inputs) = 1
                      /\ cl[t].emb_inputs[1] = EmbedNormalized(cl[t].query)
                      /\ Trimmed(cl[t].emb_inputs[1])
                      /\ \A i \in 1..Len(cl[t].emb_inputs[1]) :
                            cl[t].emb_inputs[1][i] # "\n"
                      /\ cl[t].result.kind = "value" =>
                            cl[t].sets = << SetCall(key, Pickle(cl[t].result.val), 86400) >>
                      /\ cl[t].result.kind # "value" => cl[t].sets = << >>

\* a miss on a text with a newline and surrounding white space has stored its
\* vector
C6_Witness ==
    \E t \in Threads :
       /\ Embedded(t)
       /\ cl[t].query = <<" ", "q", "\n">>
       /\ ~HeldOnEntry(t)
       /\ cl[t].result.kind = "value"
       /\ Len(cl[t].sets) = 1

\* ------------------------------------------------------------------ C5
\* get_search_results has returned
Searched(t) == pc[t] = "c_done" /\ cl[t].op = "get_search_results"

\* C5 as stated: two get_search_results calls in sequence with identical
\* arguments, the second begun before the search TTL has elapsed since the
\* first returned its text, return the same text and invoke the search
\* provider exactly once in total
C5_TwiceWithinTtlOneSearch ==
    \A t \in Threads :
       (Searched(t) /\ cl[t].repeat) =>
          /\ cl[t].result = prev[t].result
          /\ prev[t].search_calls + cl[t].search_calls = 1

\* C5 amended: when the first of two get_search_results calls in sequence
\* missed the cache and stored its text, and the second, with identical
\* arguments, begins before the search TTL has elapsed since that write, the
\* second returns the same text and makes no search and no embedding provider
\* call and no cache write, so the search provider is invoked exactly once in
\* total; an empty text of zero results is served from the cache as well
C5_SecondServedFromCache ==
    \A t \in Threads :
       (Searched(t) /\ cl[t].again) =>
          /\ cl[t].result = prev[t].result
          /\ cl[t].result.kind = "value"
          /\ prev[t].search_calls = 1
          /\ cl[t].search_calls = 0
          /\ cl[t].emb_inputs = << >>
          /\ cl[t].sets = << >>

\* the second call returns the cached empty text of a first call that found
\* zero results
C5_Witness ==
    \E t \in Threads :
       /\ Searched(t)
       /\ cl[t].again
       /\ prev[t].result = Value(<< >>)
       /\ cl[t].result = Value(<< >>)

\* ------------------------------------------------------------------ C7
\* number of separators in a text
SeparatorCount(text) == Cardinality({i \in 1..Len(text) : text[i] = Separator})

\* C7: a product search that formats n result rows produces a text in which
\* the separator occurs exactly max(n - 1, 0) times, and the empty text for
\* n = 0
C7_SeparatorBetweenBlocksOnly ==
    \A t \in Threads :
       (Searched(t) /\ cl[t].computed /\ ~cl[t].service) =>
          LET n == Len(cl[t].results)
          IN  /\ SeparatorCount(cl[t].result.val) = IF n > 0 THEN n - 1 ELSE 0
              /\ n = 0 => cl[t].result.val = << >>

\* ----------------------------------------------------------------- C11
\* decide_search_path has returned after the chat provider answered
Classified(t) ==
    pc[t] = "done" /\ loc[t].op = "decide_search_path" /\ loc[t].answered

\* raw replies and the label each of them is to give
LabelExamples ==
    { << <<"MORE">>, <<"MORE">> >>,
      << <<" ", "more", "\n">>, <<"MORE">> >>,
      << <<"continue", " ", "conversation">>, <<"CONTINUE", " ", "CONVERSATION">> >>,
      << <<"insurance_product">>, <<"INSURANCE_PRODUCT">> >>,
      << <<"INSURANCE_SERVICE">>, <<"INSURANCE_SERVICE">> >>,
      << <<"off-topic">>, <<"OFF-TOPIC">> >>,
      << <<"banana">>, <<"OFF-TOPIC">> >>,
      << << >>, <<"OFF-TOPIC">> >>,
      << <<"MORE", " ", "please">>, <<"OFF-TOPIC">> >>,
      << <<"continue", "\n", "conversation">>, <<"OFF-TOPIC">> >> }

\* C11: for every raw text the chat provider answers, decide_search_path
\* returns one of the five labels and raises nothing: the trimmed, upper-cased
\* text itself when that is a label, the off-topic label otherwise
C11_AlwaysAKnownLabel ==
    \A t \in Threads :
       Classified(t) =>
          /\ loc[t].result.kind = "value"
          /\ loc[t].result.val \in PathLabels
          /\ \A e \in LabelExamples :
                loc[t].raw = e[1] => loc[t].result.val = e[2]
          /\ \E e \in LabelExamples : loc[t].raw = e[1]

\* the reply "banana" has been classified as off-topic
C11_Witness ==
    \E t \in Threads :
       /\ Classified(t)
       /\ loc[t].raw = <<"banana">>
       /\ loc[t].result = Value(<<"OFF-TOPIC">>)

\* ----------------------------------------------------------------- C12
\* the thread has derived a search key / an embedding key
HasSearchKey(t) == cl[t].op = "search_key"
HasEmbeddingKey(t) == cl[t].op = "embedding_key"

\* the two threads' arguments are the same after trimming the query
SameSearchArguments(a, b) ==
    /\ Strip(cl[a].query) = Strip(cl[b].query)
    /\ cl[a].top_k = cl[b].top_k
    /\ cl[a].skip_k = cl[b].skip_k
    /\ cl[a].service = cl[b].service

\* C12: two search keys are equal exactly when the trimmed query, top_k,
\* skip_k and the service flag are equal (the digest taken as injective); a
\* search key never equals an embedding key, nor a product search key a
\* service search key
C12_KeysInjectiveAndNamespaced ==
    \A a, b \in Threads :
       /\ (HasSearchKey(a) /\ HasSearchKey(b)) =>
             /\ (cl[a].key = cl[b].key) <=> SameSearchArguments(a, b)
             /\ cl[a].service # cl[b].service => cl[a].key # cl[b].key
       /\ (HasSearchKey(a) /\ HasEmbeddingKey(b)) => cl[a].key # cl[b].key

\* two search keys of the same query whose numbers only differ in where the
\* digits are divided: top_k 1, skip_k 23 against top_k 12, skip_k 3
C12_Witness ==
    \E a, b \in Threads :
       /\ HasSearchKey(a) /\ HasSearchKey(b)
       /\ cl[a].query = cl[b].query /\ cl[a].service = cl[b].service
       /\ cl[a].top_k = 1 /\ cl[a].skip_k = 23
       /\ cl[b].top_k = 12 /\ cl[b].skip_k = 3
       /\ cl[a].key # cl[b].key

\* ----------------------------------------------------------------- C13
\* the recorded time stamps of limiter l that are not at or before now - period
Retained(l) == SelectSeq(calls[l], LAMBDA x : ~(x <= clock - period[l]))

\* thread t takes the step from the purge to the decision to sleep or not
Decides(t) == apc[t] = "check" /\ apc'[t] # "check"

\* C13: acquire() sleeps exactly when at least max_calls time stamps remain
\* after those at or before now - period are discarded; the sleep then lasts
\* period - (now - oldest retained stamp), more than 0 and at most period;
\* otherwise it goes on to record without any sleep
C13_SleepsIffWindowFull ==
    [][ \A t \in Threads :
          Decides(t) =>
             LET l == lim[t]
             IN  /\ calls'[l] = Retained(l)
                 /\ (apc'[t] = "sleeping") <=> (Len(Retained(l)) >= max_calls[l])
                 /\ apc'[t] = "sleeping" =>
                       /\ to_wait'[t] = period[l] - (clock - Retained(l)[1])
                       /\ \A i \in 1..Len(Retained(l)) : Retained(l)[1] <= Retained(l)[i]
                       /\ to_wait'[t] > 0
                       /\ to_wait'[t] <= period[l]
                       /\ wake'[t] = clock + to_wait'[t]
                 /\ apc'[t] # "sleeping" =>
                       apc'[t] = "append" /\ to_wait'[t] = 0 ]_vars

\* with max_calls = 2, two calls recorded back to back at time 0: the third,
\* at time 0 still, sleeps for a whole period
C13_Witness ==
    \E t \in Threads :
       /\ apc[t] = "sleeping"
       /\ max_calls[lim[t]] = 2
       /\ calls[lim[t]] = <<0, 0>>
       /\ clock = 0
       /\ to_wait[t] = period[lim[t]]

\* ----------------------------------------------------------------- C14
\* the threads between the start of the purge and the append of their time
\* stamp on limiter l, a sleeping thread included
InSequence(l) ==
    {t \in Threads : lim[t] = l /\ apc[t] \in {"check", "sleeping", "append"}}

\* C14: on one limiter at most one thread at a time is between the start of
\* the purge and the append of its time stamp, and that thread holds the
\* limiter's lock for the whole span, its sleep included
C14_SequenceAtomic ==
    \A l \in Limiters :
       /\ Cardinality(InSequence(l)) <= 1
       /\ \A t \in InSequence(l) : lock[l] = t
       /\ lock[l] # NoThread => lock[l] \in InSequence(l)

\* a thread sleeps inside acquire() while another thread that called
\* acquire() on the same limiter waits for the lock
C14_Witness ==
    \E t, u \in Threads :
       /\ t # u
       /\ lim[t] = lim[u]
       /\ apc[t] = "sleeping"
       /\ apc[u] = "lock"
       /\ lock[lim[t]] = t

\* ----------------------------------------------------------------- C15
\* acquire() has returned to thread t
Acquired(t) == pc[t] = "idle" /\ ret[t] = "ok"

\* C15 as stated: with threads that are never delayed by the scheduler, every
\* acquire() returns at most period after its invocation, also when several
\* threads call acquire() on the same limiter
C15_BlockedAtMostPeriod ==
    \A t \in Threads : Acquired(t) => loc[t].blocked <= period[lim[t]]

\* C15 amended: with threads that are never delayed by the scheduler, every
\* acquire() returns at most period after it obtained the limiter's lock, the
\* time it spends there being the one sleep it asked for; the wait for the
\* lock comes on top of it
C15_AtMostPeriodOnceInside ==
    \A t \in Threads :
       /\ loc[t].inside <= period[lim[t]]
       /\ loc[t].inside <= loc[t].blocked
       /\ Acquired(t) => loc[t].inside = to_wait[t]

\* a thread has returned from acquire() more than period after it called it,
\* having slept a whole period after a wait for the lock
C15_Witness ==
    \E t \in Threads :
       /\ Acquired(t)
       /\ loc[t].inside = period[lim[t]]
       /\ loc[t].blocked > period[lim[t]]

\* ----------------------------------------------------------------- C16
\* embed_text / get_search_results has raised the error of a provider
Failed(t) == pc[t] = "c_done" /\ cl[t].result = Raised

\* C16: a failed embed_text has called the embedding provider exactly once and
\* written nothing; a get_search_results that failed in its search has called
\* the search provider exactly once and written nothing under the search key,
\* its only cache write being the embedding entry of a preceding embed that
\* missed the cache and succeeded; one that failed in its embedding has
\* called no search provider and written nothing
C16_FailureNotRetriedNotCached ==
    \A t \in Threads :
       Failed(t) =>
          /\ cl[t].op = "embed_text" =>
                Len(cl[t].emb_inputs) = 1 /\ cl[t].sets = << >>
          /\ cl[t].op = "get_search_results" =>
                /\ \A i \in 1..Len(cl[t].sets) : cl[t].sets[i].key # cl[t].key
                /\ cl[t].search_calls = 1 =>
                      \/ cl[t].emb_inputs = << >> /\ cl[t].sets = << >>
                      \/ /\ Len(cl[t].emb_inputs) = 1
                         /\ cl[t].sets = << SetCall(embedding_key(cl[t].query),
                                                    Pickle(cl[t].vect), 86400) >>
                /\ cl[t].search_calls # 1 =>
                      /\ cl[t].search_calls = 0
                      /\ Len(cl[t].emb_inputs) = 1
                      /\ cl[t].sets = << >>

\* a search has failed in its search provider after its embedding missed the
\* cache and was stored
C16_Witness ==
    \E t \in Threads :
       /\ Failed(t)
       /\ cl[t].op = "get_search_results"
       /\ cl[t].search_calls = 1
       /\ Len(cl[t].sets) = 1
       /\ cl[t].key \notin DOMAIN cache
       /\ embedding_key(cl[t].query) \in DOMAIN cache

\* ----------------------------------------------------------------- C17
\* thread t calls mc_client.set in this step
Writes(t) == Len(cl'[t].sets) > Len(cl[t].sets)

\* the key of the mc_client.set thread t calls in this step
WrittenKey(t) == cl'[t].sets[Len(cl'[t].sets)].key

InAcquire(t, l) ==
    lim[t] = l /\ apc[t] \in {"lock", "check", "sleeping", "append"}

\* C18: no thread holds the locks of chat_limiter_sec and chat_limiter_min at
\* once, and a thread that asks for, holds or sleeps under the per-minute lock
\* does not hold the per-second lock; a thread that waits for a lock waits for
\* a holder that is past the lock itself, purging, sleeping or recording, so
\* no thread waits for a thread that waits: there is no deadlock
C18_LocksNotNestedNoDeadlock ==
    \A t \in Threads :
       /\ ~(lock["sec"] = t /\ lock["min"] = t)
       /\ InAcquire(t, "min") => lock["sec"] # t
       /\ InAcquire(t, "sec") => lock["min"] # t
       /\ (apc[t] = "lock" /\ lock[lim[t]] # NoThread) =>
             /\ lock[lim[t]] # t
             /\ lim[lock[lim[t]]] = lim[t]
             /\ apc[lock[lim[t]]] \in {"check", "sleeping", "append"}

\* one thread sleeps inside chat_limiter_min.acquire() while another is inside
\* chat_limiter_sec.acquire(), has its lock and is about to record and return
C18_Witness ==
    \E t, u \in Threads :
       /\ t # u
       /\ lim[t] = "min" /\ apc[t] = "sleeping" /\ lock["min"] = t
       /\ lim[u] = "sec" /\ apc[u] = "append" /\ lock["sec"] = u

\* ----------------------------------------------------------------- C19
\* summarize_text has ended with the error of its chat call
SummaryFailed(t) ==
    pc[t] = "done" /\ loc[t].op = "summarize_text" /\ loc[t].result = Raised

\* C19: when the chat call of summarize_text fails, on a text longer than
\* max_chars, the error reaches the caller after one chat call, no call on the
\* history store has been made and the store holds what it held at the call
C19_FailedSummaryLeavesHistory ==
    \A t \in Threads :
       SummaryFailed(t) =>
          /\ Len(loc[t].text) > loc[t].max_chars
          /\ loc[t].nchat = 1
          /\ loc[t].store_ops = << >>
          /\ history = loc[t].entry_store

\* the chat call failed for a user who has stored history, which is still
\* there
C19_Witness ==
    \E t \in Threads :
       /\ SummaryFailed(t)
       /\ history[loc[t].user_id] # << >>
       /\ history[loc[t].user_id] = loc[t].entry_store[loc[t].user_id]

====
